---- MODULE Spec2Model ----
(***************************************************************************)
(* State-machine model of grubberize.c, the binding between GRUB           *)
(* filesystem code and a standalone EFI driver: the disk read translator,  *)
(* the device shadow (open/close, init/exit), the probe and UUID bridge,   *)
(* the shell variable lookup, the console key read and the time converter. *)
(* Each part has its own specification over the shared variables.          *)
(***************************************************************************)
EXTENDS Integers, Sequences, FiniteSets

VARIABLES
    \* grub_disk_read
    disk_data,      \* disk->data: the EFI_FS back-reference, or NULL
    DiskIo,         \* FileSystem->DiskIo: the raw-block capability, or NULL
    readArgs,       \* sector, offset and size of the last call
    readLog,        \* the host ReadDisk calls the last call issued, in order
    buf,            \* the caller's destination buffer
    readRet,        \* the last call's return value
    \* pool allocator and the Device / Disk objects
    heap,           \* the live pool allocations
    mem,            \* block -> the fields stored in it (disk, data)
    fault,          \* "none", or how undefined behaviour ended the run:
                    \*   "crash" or "corrupt" (it went on with a corrupted pool)
    \* callers of grub_device_open / grub_device_close
    handles,        \* Devices returned by open and not yet closed
    lastOp,         \* "open", "open_failed", "open_close", "close"
    lastDev,        \* the Device the last open returned
    lastName,       \* the identity the last open was given
    heapBefore,     \* the live allocations before the last open
    \* Filesystem Instances
    GrubDevice,     \* This->GrubDevice of each instance
    instCall,       \* the last lifecycle call made on each instance
    liveDev,        \* the live Devices that were allocated for each instance
    badFree,        \* a Device that was already freed has been freed again
    \* probe bridge
    grub_fs_list,   \* the registered filesystem driver, or NULL
    grub_errno,
    probeRet,       \* the last GrubFSProbe: result,
    probeDirCalled, \*   whether it invoked the driver's dir entry point,
    probeReads,     \*   and the disk reads issued during it
    \* UUID bridge and shell variable lookup
    fs_uuid,        \* grub_fs_list->uuid: the driver's UUID entry point, or NULL
    UUID,           \* static CHAR16 UUID[36] of GrubGetUUID
    uuidRet,        \* the last GrubGetUUID: "NULL" or "UUID",
    uuidUnits,      \*   the code units it stored,
    lastUuid,       \*   and what the driver's entry point produced
    shellVar,       \* the firmware's answer for the shell variable
    val,            \* static char val[128] of grub_env_get
    envRet,         \* the last grub_env_get: "NULL" or "val",
    valBytes,       \*   and the bytes it stored, counted from val[0]
    \* console
    conQueue,       \* keystrokes waiting in ST->ConIn
    Key,            \* Key.UnicodeChar, the local of grub_getkey
    kpc,            \* "idle", "poll" (in the loop), "returned"
    keyRead,        \* ReadKeyStroke has delivered a keystroke to this call
    keyRet,         \* the value grub_getkey returned
    \* t, days, rem, y, *tp of GrubTimeToEfiTime, and its position
    t, days, rem, y, tp, tpc

diskVars == <<disk_data, DiskIo, readArgs, readLog, buf, readRet>>
poolVars == <<heap, mem, fault>>
callerVars == <<handles, lastOp, lastDev, lastName, heapBefore>>
instVars == <<GrubDevice, instCall, liveDev, badFree>>
probeVars == <<grub_fs_list, grub_errno, probeRet, probeDirCalled, probeReads>>
textVars == <<fs_uuid, UUID, uuidRet, uuidUnits, lastUuid, shellVar, val, envRet, valBytes>>
keyVars == <<conQueue, Key, kpc, keyRead, keyRet>>
timeVars == <<t, days, rem, y, tp, tpc>>
vars == <<diskVars, poolVars, callerVars, instVars, probeVars, textVars, keyVars, timeVars>>

\* Pointers are addresses: NULL is 0, pool blocks are 1..PoolSize, the EFI_FS
\* structures of the two Filesystem Instances live at 101 and 102, and a
\* protocol or driver structure that is present lives at 1.
NULL == 0

(***************************************************************************)
(* Disk I/O: grub_disk_read                                                *)
(***************************************************************************)
GRUB_DISK_SECTOR_SIZE == 512
GRUB_ERR_NONE == "GRUB_ERR_NONE"
GRUB_ERR_READ_ERROR == "GRUB_ERR_READ_ERROR"

\* Size of the backing store in sectors, and the largest read size tried.
StoreSectors == 2
MaxSize == 3
StoreBytes == StoreSectors * GRUB_DISK_SECTOR_SIZE

\* The byte the backing store holds at byte address i.
StoreByte(i) == (i * 37 + (i \div GRUB_DISK_SECTOR_SIZE) * 101 + 11) % 256
\* A direct raw-block read of n bytes at byte address a.
RawBlockRead(a, n) == [i \in 1..n |-> StoreByte(a + i - 1)]

\* DiskIo->ReadDisk(This, MediaId, Offset, BufferSize, Buffer): fails for a
\* range outside the media and when the device reports an error.
ReadDisk(Offset, BufferSize, deviceOk) ==
    IF Offset + BufferSize > StoreBytes THEN "EFI_INVALID_PARAMETER"
    ELSE IF ~deviceOk THEN "EFI_DEVICE_ERROR"
    ELSE "EFI_SUCCESS"
EFI_ERROR(Status) == Status # "EFI_SUCCESS"

\* A variant that leaves the offset out.
DiskAddressSectorOnly(sector, offset) == sector * GRUB_DISK_SECTOR_SIZE
\* sector * GRUB_DISK_SECTOR_SIZE + offset (no address inside the backing store
\* comes near the 64-bit limit of grub_disk_addr_t).
DiskAddress(sector, offset) == sector * GRUB_DISK_SECTOR_SIZE + offset

HostCall(a, n, Status) == [Offset |-> a, BufferSize |-> n, Status |-> Status]

\* A variant that reads again when the host read failed.
DiskReadRetry(data, diskio, sector, offset, size, deviceOk, b) ==
    IF data = NULL \/ diskio = NULL
    THEN [ret |-> GRUB_ERR_READ_ERROR, log |-> <<>>, buf |-> b]
    ELSE LET a == DiskAddress(sector, offset)
             Status == ReadDisk(a, size, deviceOk)
         IN IF EFI_ERROR(Status)
            THEN [ret |-> GRUB_ERR_READ_ERROR,
                  log |-> <<HostCall(a, size, Status), HostCall(a, size, Status)>>,
                  buf |-> b]
            ELSE [ret |-> GRUB_ERR_NONE,
                  log |-> <<HostCall(a, size, Status)>>,
                  buf |-> RawBlockRead(a, size)]

\* grub_disk_read: the value returned, the host reads issued and the buffer.
DiskRead(data, diskio, sector, offset, size, deviceOk, b) ==
    IF data = NULL \/ diskio = NULL
    THEN [ret |-> GRUB_ERR_READ_ERROR, log |-> <<>>, buf |-> b]
    ELSE LET a == DiskAddress(sector, offset)
             Status == ReadDisk(a, size, deviceOk)
         IN IF EFI_ERROR(Status)
            THEN [ret |-> GRUB_ERR_READ_ERROR,
                  log |-> <<HostCall(a, size, Status)>>,
                  buf |-> b]
            ELSE [ret |-> GRUB_ERR_NONE,
                  log |-> <<HostCall(a, size, Status)>>,
                  buf |-> RawBlockRead(a, size)]

Sectors == 0..StoreSectors
Offsets == {0, 1, GRUB_DISK_SECTOR_SIZE - 1, GRUB_DISK_SECTOR_SIZE + 1}
Sizes == 0..MaxSize
\* What the caller's buffer holds before the call.
FreshBuffer(n) == [i \in 1..n |-> 204]

grub_disk_read ==
    \E sector \in Sectors, offset \in Offsets, size \in Sizes, deviceOk \in BOOLEAN :
        LET r == DiskRead(disk_data, DiskIo, sector, offset, size, deviceOk,
                          FreshBuffer(size))
        IN /\ readArgs' = [sector |-> sector, offset |-> offset, size |-> size]
           /\ readLog' = r.log
           /\ buf' = r.buf
           /\ readRet' = r.ret
           /\ UNCHANGED <<disk_data, DiskIo, poolVars, callerVars, instVars, probeVars,
                          textVars, keyVars, timeVars>>

NoArgs == [sector |-> 0, offset |-> 0, size |-> 0]
DiskIdle ==
    /\ disk_data = NULL /\ DiskIo = NULL /\ readArgs = NoArgs
    /\ readLog = <<>> /\ buf = <<>> /\ readRet = "none"

(***************************************************************************)
(* Device shadow: grub_device_open / grub_device_close                     *)
(***************************************************************************)
\* The pool has PoolSize blocks; a freed block can be handed out again.
PoolSize == 4
Pool == 1..PoolSize
\* grub_zalloc: NULL, or a block that is not live, zero filled.
AllocChoices(h) == {NULL} \cup (Pool \ h)
ZeroBlock == [disk |-> NULL, data |-> NULL]

\* A variant that returns NULL without freeing the Device when the Disk
\* allocation fails.
grub_device_open_leak(h, m, name, a1, a2) ==
    IF a1 = NULL
    THEN [ret |-> NULL, heap |-> h, mem |-> m]
    ELSE LET m1 == [m EXCEPT ![a1] = ZeroBlock]
         IN IF a2 = NULL
            THEN [ret |-> NULL, heap |-> h \cup {a1}, mem |-> m1]
            ELSE [ret |-> a1,
                  heap |-> h \cup {a1, a2},
                  mem |-> [m1 EXCEPT ![a1].disk = a2,
                                     ![a2] = [disk |-> NULL, data |-> name]]]

\* grub_device_open(name), with a1 and a2 the results of its two grub_zalloc
\* calls: the value returned, the live allocations and the memory afterwards.
grub_device_open(h, m, name, a1, a2) ==
    IF a1 = NULL
    THEN [ret |-> NULL, heap |-> h, mem |-> m]
    ELSE LET m1 == [m EXCEPT ![a1] = ZeroBlock]
         IN IF a2 = NULL
            THEN [ret |-> NULL, heap |-> h, mem |-> m]
            ELSE [ret |-> a1,
                  heap |-> h \cup {a1, a2},
                  mem |-> [m1 EXCEPT ![a1].disk = a2,
                                     ![a2] = [disk |-> NULL, data |-> name]]]

\* How a call ends: undefined behaviour (a read through a null or dangling
\* pointer, a free of a block that is not live) crashes the image or lets it
\* run on with a corrupted pool; nothing is modelled after either.
Outcome(ub) == IF ub THEN {"crash", "corrupt"} ELSE {"none"}

\* What device->disk evaluates to: the field of a live Device, and any value
\* when the Device is null or has been freed.
DeviceDisk(h, m, device) ==
    IF device \in h THEN {m[device].disk} ELSE {NULL} \cup Pool

\* grub_device_close(device): grub_free(device->disk); grub_free(device), with
\* disk the value read from device->disk. Freed blocks are shown zeroed.
\* ub: the call read through a null or dangling Device, or freed a pointer
\* that is not a live allocation.
grub_device_close(h, m, device, disk) ==
    [heap |-> (h \ {disk}) \ {device},
     mem |-> [b \in Pool |-> IF b \in h /\ b \in {disk, device} THEN ZeroBlock ELSE m[b]],
     ub |-> device \notin h \/ disk \notin h]

Identities == {NULL, 101, 102}

\* A caller opens a device.
DeviceOpen ==
    /\ fault = "none"
    /\ \E name \in Identities, a1 \in AllocChoices(heap) :
         \E a2 \in (IF a1 = NULL THEN {NULL} ELSE AllocChoices(heap \cup {a1})) :
            LET r == grub_device_open(heap, mem, name, a1, a2)
            IN /\ heap' = r.heap
               /\ mem' = r.mem
               /\ handles' = IF r.ret = NULL THEN handles ELSE handles \cup {r.ret}
               /\ lastOp' = IF r.ret = NULL THEN "open_failed" ELSE "open"
               /\ lastDev' = r.ret
               /\ lastName' = name
               /\ heapBefore' = heap
    /\ UNCHANGED <<fault, diskVars, instVars, probeVars, textVars, keyVars, timeVars>>

\* A caller closes a device it holds.
DeviceClose ==
    /\ fault = "none"
    /\ \E d \in handles : \E disk \in DeviceDisk(heap, mem, d) :
         LET r == grub_device_close(heap, mem, d, disk)
         IN /\ heap' = r.heap
            /\ mem' = r.mem
            /\ fault' \in Outcome(r.ub)
            /\ handles' = handles \ {d}
            /\ lastOp' = IF lastOp = "open" /\ d = lastDev THEN "open_close" ELSE "close"
    /\ UNCHANGED <<lastDev, lastName, heapBefore, diskVars, instVars, probeVars,
                   textVars, keyVars, timeVars>>

(***************************************************************************)
(* Filesystem Instance lifecycle: GrubDeviceInit / GrubDeviceExit          *)
(***************************************************************************)
Instances == {101, 102}

\* The instances' live Devices once the blocks in gone have been freed.
Released(ld, gone) == [f \in Instances |-> ld[f] \ gone]

GrubDeviceInit(This) ==
    /\ fault = "none"
    /\ \E a1 \in AllocChoices(heap) :
         \E a2 \in (IF a1 = NULL THEN {NULL} ELSE AllocChoices(heap \cup {a1})) :
            LET r == grub_device_open(heap, mem, This, a1, a2)
            IN /\ heap' = r.heap
               /\ mem' = r.mem
               /\ GrubDevice' = [GrubDevice EXCEPT ![This] = r.ret]
               /\ liveDev' = IF r.ret = NULL THEN liveDev
                             ELSE [liveDev EXCEPT ![This] = @ \cup {r.ret}]
    /\ instCall' = [instCall EXCEPT ![This] = "init"]
    /\ UNCHANGED <<fault, badFree, diskVars, callerVars, probeVars, textVars, keyVars, timeVars>>

GrubDeviceExit(This) ==
    /\ fault = "none"
    /\ LET device == GrubDevice[This]
       IN \E disk \in DeviceDisk(heap, mem, device) :
            LET r == grub_device_close(heap, mem, device, disk)
            IN /\ fault' \in Outcome(r.ub)
               /\ heap' = r.heap
               /\ mem' = r.mem
               /\ liveDev' = Released(liveDev, heap \ r.heap)
               /\ badFree' = (badFree \/ (device # NULL /\ device \notin heap))
    /\ instCall' = [instCall EXCEPT ![This] = "exit"]
    /\ UNCHANGED <<GrubDevice, diskVars, callerVars, probeVars, textVars, keyVars, timeVars>>

(***************************************************************************)
(* Probe bridge: GrubFSProbe                                               *)
(***************************************************************************)
\* The most disk reads the driver's dir entry point issues in one probe.
MaxProbeReads == 2

\* Variant without the test of the registry.
ProbeUninitializedDiskOnly(p, disk) == disk = NULL
\* (p == NULL) || (device->disk == NULL)
ProbeUninitialized(p, disk) == p = NULL \/ disk = NULL

\* What device->disk evaluates to in the probe; with an empty registry the
\* field of a null or dangling Device is never read (shown as -1).
DiskField(p, device) ==
    IF device \in heap THEN {mem[device].disk}
    ELSE IF p = NULL THEN {-1}
    ELSE {NULL} \cup Pool

GrubFSProbe(This) ==
    /\ fault = "none"
    /\ LET p == grub_fs_list
           device == GrubDevice[This]
       IN \E disk \in DiskField(p, device) :
            IF ProbeUninitialized(p, disk)
            THEN /\ probeRet' = "FALSE"
                 /\ probeDirCalled' = FALSE
                 /\ probeReads' = 0
                 /\ fault' \in Outcome(p # NULL /\ device \notin heap)
                 /\ UNCHANGED grub_errno
            ELSE \* (p->dir)(device, "/", probe_dummy_iter, NULL)
                 \E n \in 0..MaxProbeReads, failed \in BOOLEAN :
                    /\ probeDirCalled' = TRUE
                    /\ probeReads' = n
                    /\ grub_errno' = IF failed THEN "GRUB_ERR_BAD_FS" ELSE grub_errno
                    /\ probeRet' = IF grub_errno' = GRUB_ERR_NONE THEN "TRUE" ELSE "FALSE"
                    /\ fault' \in Outcome(p = NULL \/ device \notin heap)
    /\ UNCHANGED <<heap, mem, grub_fs_list, diskVars, callerVars, instVars, textVars, keyVars, timeVars>>

PoolIdle ==
    /\ heap = {} /\ mem = [b \in Pool |-> ZeroBlock] /\ fault = "none"
CallerIdle ==
    /\ handles = {} /\ lastOp = "none" /\ lastDev = NULL /\ lastName = NULL
    /\ heapBefore = {}
InstIdle ==
    /\ GrubDevice = [f \in Instances |-> NULL]
    /\ instCall = [f \in Instances |-> "none"]
    /\ liveDev = [f \in Instances |-> {}]
    /\ badFree = FALSE
ProbeIdle ==
    /\ grub_fs_list = NULL /\ grub_errno = GRUB_ERR_NONE
    /\ probeRet = "none" /\ probeDirCalled = FALSE /\ probeReads = 0

(***************************************************************************)
(* Text: grub_utf8_to_utf16, grub_utf16_to_utf8, GrubGetUUID, grub_env_get *)
(***************************************************************************)
\* Strings are sequences of code points (narrow text) or of UTF-16 code
\* units (wide text), without the terminating NUL.
Rep(c, n) == [i \in 1..n |-> c]

UUID_SIZE == 36
VAL_SIZE == 128
WVAL_SIZE == 128

\* grub_utf8_to_utf16(dest, destsize, src, srcsize, NULL) on well-formed
\* narrow text: the code units stored. It stops when the destination is full,
\* and before a surrogate pair that no longer fits.
RECURSIVE grub_utf8_to_utf16(_, _)
grub_utf8_to_utf16(src, destsize) ==
    IF src = <<>> \/ destsize = 0 THEN <<>>
    ELSE LET code == Head(src)
         IN IF code = 0 THEN <<>>
            ELSE IF code >= 65536
            THEN IF destsize < 2 THEN <<>>
                 ELSE << 55296 + ((code - 65536) \div 1024),
                         56320 + ((code - 65536) % 1024) >>
                      \o grub_utf8_to_utf16(Tail(src), destsize - 2)
            ELSE <<code>> \o grub_utf8_to_utf16(Tail(src), destsize - 1)

\* grub_utf16_to_utf8(dest, src, size): the bytes stored for the code units
\* src. It converts every unit it is given and knows no destination size.
\* A high surrogate is held back in code_high until the next unit is seen: with
\* a low surrogate it makes a four-byte sequence, before anything else a '?'
\* is stored and the unit is converted on its own.
HighSurrogate(code) == code >= 55296 /\ code <= 56319
LowSurrogate(code) == code >= 56320 /\ code <= 57343
\* The bytes stored while the loop consumes src[i].
Utf8OfUnit(src, i) ==
    LET code == src[i]
        code_high == IF i > 1 /\ HighSurrogate(src[i - 1]) THEN src[i - 1] ELSE 0
    IN IF code_high # 0 /\ LowSurrogate(code)
       THEN LET c == (code_high - 55296) * 1024 + (code - 56320) + 65536
            IN << 240 + (c \div 262144), 128 + ((c \div 4096) % 64),
                  128 + ((c \div 64) % 64), 128 + (c % 64) >>
       ELSE (IF code_high # 0 THEN <<63>> ELSE <<>>)
            \o (IF code <= 127 THEN <<code>>
                ELSE IF code <= 2047 THEN <<192 + (code \div 64), 128 + (code % 64)>>
                ELSE IF HighSurrogate(code) THEN <<>>
                ELSE IF LowSurrogate(code) THEN <<63>>
                ELSE << 224 + (code \div 4096), 128 + ((code \div 64) % 64),
                        128 + (code % 64) >>)
\* The bytes stored for src[lo..hi], in order.
RECURSIVE Utf8OfUnits(_, _, _)
Utf8OfUnits(src, lo, hi) ==
    IF lo > hi THEN <<>>
    ELSE IF lo = hi THEN Utf8OfUnit(src, lo)
    ELSE LET mid == (lo + hi) \div 2
         IN Utf8OfUnits(src, lo, mid) \o Utf8OfUnits(src, mid + 1, hi)
grub_utf16_to_utf8(src) == Utf8OfUnits(src, 1, Len(src))

\* A buffer after new content is stored at its start (what lies past its end
\* is not part of the buffer).
Store(buffer, new) ==
    [i \in 1..Len(buffer) |-> IF i <= Len(new) THEN new[i] ELSE buffer[i]]

\* What the driver's uuid entry point can produce: an error, a null
\* identifier, or identifier text: empty, short, of 36 characters, longer,
\* and with characters outside the BMP.
\* 97 is 'a'; 128512 (U+1F600) takes a surrogate pair.
UuidTexts ==
    {Rep(97, n) : n \in {0, 1, UUID_SIZE, UUID_SIZE + 1}}
    \cup {Rep(128512, n) : n \in {1, UUID_SIZE \div 2, UUID_SIZE}}
    \cup {Rep(97, UUID_SIZE - 1) \o Rep(128512, 1)}
NoUuid == [err |-> FALSE, isNull |-> TRUE, text |-> <<>>]
UuidResults ==
    {[err |-> TRUE, isNull |-> TRUE, text |-> <<>>], NoUuid}
    \cup {[err |-> e, isNull |-> FALSE, text |-> x] : e \in BOOLEAN, x \in UuidTexts}

GrubGetUUID ==
    /\ fault = "none"
    /\ IF grub_fs_list = NULL
       THEN \* grub_fs_list->uuid read through a null pointer
            /\ fault' \in Outcome(TRUE)
            /\ UNCHANGED <<UUID, uuidRet, uuidUnits, lastUuid>>
       ELSE IF fs_uuid = NULL
       THEN /\ uuidRet' = "NULL"
            /\ uuidUnits' = 0
            /\ lastUuid' = NoUuid
            /\ UNCHANGED <<UUID, fault>>
       ELSE \E r \in UuidResults :
            /\ lastUuid' = r
            /\ IF r.err \/ r.isNull
               THEN /\ uuidRet' = "NULL"
                    /\ uuidUnits' = 0
                    /\ UNCHANGED UUID
               ELSE LET units == grub_utf8_to_utf16(r.text, UUID_SIZE)
                    IN /\ UUID' = Store(UUID, units)
                       /\ uuidUnits' = Len(units)
                       /\ uuidRet' = "UUID"
            /\ UNCHANGED fault
    /\ UNCHANGED <<heap, mem, fs_uuid, grub_fs_list, grub_errno, probeRet, probeDirCalled,
                   probeReads, shellVar, val, envRet, valBytes,
                   diskVars, callerVars, instVars, keyVars, timeVars>>

\* RT->GetVariable with a buffer of WVAL_SIZE code units: the variable is
\* missing, or too long for the buffer, or its NUL-terminated text is stored.
\* 233 (U+00E9) takes two bytes of UTF-8, 8364 (U+20AC) three.
ShellTexts ==
    {Rep(97, n) : n \in {0, 1, WVAL_SIZE - 1, WVAL_SIZE}}
    \cup {Rep(233, n) : n \in {1, 63, 64, WVAL_SIZE - 1}}
    \cup {Rep(8364, n) : n \in {1, 42, 43, WVAL_SIZE - 1}}
    \cup {Rep(97, 120) \o Rep(8364, 2), Rep(97, 120) \o Rep(8364, 3)}
ShellVariables ==
    {[set |-> FALSE, text |-> <<>>]} \cup {[set |-> TRUE, text |-> x] : x \in ShellTexts}
GetVariable(stored) ==
    IF ~stored.set THEN "EFI_NOT_FOUND"
    ELSE IF Len(stored.text) + 1 > WVAL_SIZE THEN "EFI_BUFFER_TOO_SMALL"
    ELSE "EFI_SUCCESS"

grub_env_get ==
    /\ fault = "none"
    /\ IF EFI_ERROR(GetVariable(shellVar))
       THEN /\ envRet' = "NULL"
            /\ valBytes' = 0
            /\ UNCHANGED <<val, fault>>
       ELSE \* grub_utf16_to_utf8(val, wVal, StrLen(wVal)+1)
            LET bytes == grub_utf16_to_utf8(shellVar.text \o <<0>>)
            IN /\ val' = Store(val, bytes)
               /\ valBytes' = Len(bytes)
               /\ envRet' = "val"
               /\ fault' \in Outcome(Len(bytes) > VAL_SIZE)
    /\ UNCHANGED <<heap, mem, fs_uuid, UUID, uuidRet, uuidUnits, lastUuid, shellVar,
                   diskVars, callerVars, instVars, probeVars, keyVars, timeVars>>

TextIdle ==
    /\ fs_uuid = NULL /\ UUID = Rep(0, UUID_SIZE) /\ uuidRet = "none" /\ uuidUnits = 0
    /\ lastUuid = NoUuid
    /\ shellVar = [set |-> FALSE, text |-> <<>>]
    /\ val = Rep(0, VAL_SIZE) /\ envRet = "none" /\ valBytes = 0

(***************************************************************************)
(* Console: grub_getkey                                                    *)
(***************************************************************************)
\* The most keystrokes waiting in the console input device.
MaxQueue == 2
KeyChars == {97, 13, 8364}

\* A key is pressed.
KeyStroke ==
    /\ Len(conQueue) < MaxQueue
    /\ \E c \in KeyChars : conQueue' = Append(conQueue, c)
    /\ UNCHANGED <<Key, kpc, keyRead, keyRet,
                   diskVars, poolVars, callerVars, instVars, probeVars, textVars, timeVars>>

\* Entry: the local Key is not initialised and holds any value.
grub_getkey_entry ==
    /\ kpc \in {"idle", "returned"}
    /\ kpc' = "poll"
    /\ Key' \in KeyChars \cup {0}
    /\ keyRead' = FALSE
    /\ UNCHANGED <<conQueue, keyRet,
                   diskVars, poolVars, callerVars, instVars, probeVars, textVars, timeVars>>

\* What ST->ConIn->ReadKeyStroke can report.
ReadKeyStroke(queue) ==
    (IF queue = <<>> THEN {"EFI_NOT_READY"} ELSE {"EFI_SUCCESS"}) \cup {"EFI_DEVICE_ERROR"}

\* while (ReadKeyStroke(...) == EFI_NOT_READY);
LoopAgain(Status) == Status = "EFI_NOT_READY"

\* One ReadKeyStroke call of the loop, and the return when the loop ends.
grub_getkey_poll ==
    /\ kpc = "poll"
    /\ \E Status \in ReadKeyStroke(conQueue) :
         /\ IF Status = "EFI_SUCCESS"
            THEN /\ Key' = Head(conQueue)
                 /\ conQueue' = Tail(conQueue)
                 /\ keyRead' = TRUE
            ELSE UNCHANGED <<Key, conQueue, keyRead>>
         /\ IF LoopAgain(Status)
            THEN UNCHANGED <<kpc, keyRet>>
            ELSE /\ kpc' = "returned"
                 /\ keyRet' = Key'
    /\ UNCHANGED <<diskVars, poolVars, callerVars, instVars, probeVars, textVars, timeVars>>

KeyIdle ==
    /\ conQueue = <<>> /\ Key = 0 /\ kpc = "idle" /\ keyRead = FALSE /\ keyRet = 0

(***************************************************************************)
(* C integer arithmetic                                                    *)
(***************************************************************************)
\* C99 '/' truncates toward zero (b > 0 at every use).
CDiv(a, b) == IF a >= 0 \/ a % b = 0 THEN a \div b ELSE (a \div b) + 1
\* C99 '%' takes the sign of the dividend.
CMod(a, b) == a - b * CDiv(a, b)

\* Range of the INT32 argument and locals.  Every intermediate value of the
\* conversion stays inside it (|days| < 24857, years 1901..2038), so stores to
\* INT32 objects never wrap.
INT32_MAX == 2147483647
INT32_MIN == -INT32_MAX - 1
ToUINT16(x) == x % 65536
ToUINT8(x) == x % 256

(***************************************************************************)
(* Time conversion (adapted from glibc offtime.c)                          *)
(***************************************************************************)
mon_yday ==
    [l \in 0..1 |->
        IF l = 0
        THEN <<0, 31, 59, 90, 120, 151, 181, 212, 243, 273, 304, 334, 365>>
        ELSE <<0, 31, 60, 91, 121, 152, 182, 213, 244, 274, 305, 335, 366>>]

isleap(year) ==
    CMod(year, 4) = 0 /\ (CMod(year, 100) # 0 \/ CMod(year, 400) = 0)

SECS_PER_HOUR == 60 * 60
SECS_PER_DAY == SECS_PER_HOUR * 24
DIV(a, b) == CDiv(a, b) - (IF CMod(a, b) < 0 THEN 1 ELSE 0)
LEAPS_THRU_END_OF(yy) == DIV(yy, 4) - DIV(yy, 100) + DIV(yy, 400)

\* A variant that does not take the day back when it adds SECS_PER_DAY.
RECURSIVE NormaliseNegNoBorrow(_, _)
NormaliseNegNoBorrow(d, r) ==
    IF r < 0 THEN NormaliseNegNoBorrow(d, r + SECS_PER_DAY) ELSE <<d, r>>
\* while (rem < 0) { rem += SECS_PER_DAY; --days; }
RECURSIVE NormaliseNeg(_, _)
NormaliseNeg(d, r) ==
    IF r < 0 THEN NormaliseNeg(d - 1, r + SECS_PER_DAY) ELSE <<d, r>>
\* while (rem >= SECS_PER_DAY) { rem -= SECS_PER_DAY; ++days; }
RECURSIVE NormalisePos(_, _)
NormalisePos(d, r) ==
    IF r >= SECS_PER_DAY
    THEN NormalisePos(d + 1, r - SECS_PER_DAY)
    ELSE <<d, r>>

\* ip[i] for ip = __mon_yday[l]; the table has 13 entries per row, and a read
\* outside the two rows yields whatever the image holds there.
OutOfTable == {0, 365, 65535}
MonYdayRead(l, i) ==
    IF i \in 0..12 THEN {mon_yday[l][i + 1]}
    ELSE IF l = 1 /\ i \in -13..-1 THEN {mon_yday[0][i + 14]}
    ELSE OutOfTable

\* A variant of the guess without the correction for a negative remainder.
YearGuessTrunc(yy, d) == yy + CDiv(d, 365)
\* Guess a corrected year, assuming 365 days per year.
YearGuess(yy, d) == yy + CDiv(d, 365) - (IF CMod(d, 365) < 0 THEN 1 ELSE 0)

YearLen(yy) == IF isleap(yy) THEN 366 ELSE 365
LeapRow(yy) == IF isleap(yy) THEN 1 ELSE 0

NoTime == [Year |-> 0, Month |-> 0, Day |-> 0, Hour |-> 0, Minute |-> 0, Second |-> 0]

\* Lines 251-265: split into days and seconds of day, fill the time of day.
TimeOfDay ==
    /\ tpc = "entry"
    /\ LET n0 == NormaliseNeg((CDiv(t, SECS_PER_DAY)), (CMod(t, SECS_PER_DAY)))
           n1 == NormalisePos(n0[1], n0[2])
           r1 == n1[2]
           r2 == CMod(r1, SECS_PER_HOUR)
       IN /\ days' = n1[1]
          /\ rem' = r2
          /\ tp' = [tp EXCEPT !.Hour = ToUINT8(CDiv(r1, SECS_PER_HOUR)),
                              !.Minute = ToUINT8(CDiv(r2, 60)),
                              !.Second = ToUINT8(CMod(r2, 60))]
    /\ y' = 1970
    /\ tpc' = "year"
    /\ UNCHANGED <<t, diskVars, poolVars, callerVars, instVars, probeVars, textVars, keyVars>>

\* Lines 267-276: one iteration of the year-correction loop.
YearStep ==
    /\ tpc = "year"
    /\ (days < 0 \/ days >= YearLen(y))
    /\ LET yg == YearGuess(y, days)
       IN /\ days' = (days - ((yg - y) * 365
                                     + LEAPS_THRU_END_OF(yg - 1)
                                     - LEAPS_THRU_END_OF(y - 1)))
          /\ y' = yg
    /\ UNCHANGED <<t, rem, tp, tpc, diskVars, poolVars, callerVars, instVars, probeVars, textVars, keyVars>>

\* Lines 277-279: loop exit, store the year, start the month scan at 11.
YearDone ==
    /\ tpc = "year"
    /\ ~(days < 0 \/ days >= YearLen(y))
    /\ tp' = [tp EXCEPT !.Year = ToUINT16(y)]
    /\ y' = 11
    /\ tpc' = "month"
    /\ UNCHANGED <<t, days, rem, diskVars, poolVars, callerVars, instVars, probeVars, textVars, keyVars>>

\* Line 279: one iteration of for (y = 11; days < ip[y]; --y).
MonthStep ==
    /\ tpc = "month"
    /\ \E v \in MonYdayRead(LeapRow(tp.Year), y) : days < v
    /\ y' = (y - 1)
    /\ UNCHANGED <<t, days, rem, tp, tpc, diskVars, poolVars, callerVars, instVars, probeVars, textVars, keyVars>>

\* Lines 281-283: scan exit, store month and day.
MonthDone ==
    /\ tpc = "month"
    /\ \E v \in MonYdayRead(LeapRow(tp.Year), y) :
          /\ ~(days < v)
          /\ days' = (days - v)
          /\ tp' = [tp EXCEPT !.Month = ToUINT8(y + 1),
                              !.Day = ToUINT8(days - v + 1)]
    /\ tpc' = "done"
    /\ UNCHANGED <<t, rem, y, diskVars, poolVars, callerVars, instVars, probeVars, textVars, keyVars>>

GrubTimeToEfiTime == TimeOfDay \/ YearStep \/ YearDone \/ MonthStep \/ MonthDone

\* Inputs: every day of the INT32 range at its first and last second, the two
\* partial days at the ends of the range, and the epoch.
FirstDay == INT32_MIN \div SECS_PER_DAY
LastDay == INT32_MAX \div SECS_PER_DAY
TimeInputs ==
    { d * SECS_PER_DAY + r : d \in (FirstDay + 1)..(LastDay - 1),
                             r \in {0, SECS_PER_DAY - 1} }
    \cup {INT32_MIN, (FirstDay + 1) * SECS_PER_DAY - 1, LastDay * SECS_PER_DAY, INT32_MAX}
    \cup {0, -1}

TimeIdle ==
    /\ t = 0 /\ days = 0 /\ rem = 0 /\ y = 0 /\ tp = NoTime /\ tpc = "idle"

InitTime ==
    /\ t \in TimeInputs
    /\ days = 0 /\ rem = 0 /\ y = 0
    /\ tp = NoTime
    /\ tpc = "entry"
    /\ DiskIdle /\ PoolIdle /\ CallerIdle /\ InstIdle /\ ProbeIdle /\ TextIdle /\ KeyIdle

\* The Disk is bound to a Filesystem Instance or carries a null identity, and
\* the instance has its DiskIo protocol or not.
InitDisk ==
    /\ disk_data \in {NULL, 101}
    /\ DiskIo \in {NULL, 1}
    /\ readArgs = NoArgs /\ readLog = <<>> /\ buf = <<>> /\ readRet = "none"
    /\ PoolIdle /\ CallerIdle /\ InstIdle /\ ProbeIdle /\ TextIdle /\ KeyIdle /\ TimeIdle
NextDisk == grub_disk_read
SpecDisk == InitDisk /\ [][NextDisk]_vars

\* Callers (the surrounding driver, or filesystem code that opens a device by
\* name) opening and closing devices on an empty pool.
InitDev ==
    /\ PoolIdle /\ CallerIdle
    /\ DiskIdle /\ InstIdle /\ ProbeIdle /\ TextIdle /\ KeyIdle /\ TimeIdle
NextDev == DeviceOpen \/ DeviceClose
SpecDev == InitDev /\ [][NextDev]_vars

\* The instances start with a zeroed GrubDevice field; the registry holds the
\* driver linked into the image, or nothing, and is never changed afterwards.
InitInst ==
    /\ PoolIdle /\ InstIdle
    /\ grub_fs_list \in {NULL, 1} /\ grub_errno = GRUB_ERR_NONE
    /\ probeRet = "none" /\ probeDirCalled = FALSE /\ probeReads = 0
    /\ DiskIdle /\ CallerIdle /\ TextIdle /\ KeyIdle /\ TimeIdle
NextInst ==
    \E This \in Instances :
        GrubDeviceInit(This) \/ GrubDeviceExit(This) \/ GrubFSProbe(This)
SpecInst == InitInst /\ [][NextInst]_vars

\* The registry, the driver's UUID entry point and the shell variable are
\* fixed at start-up; the static buffers start zeroed.
InitText ==
    /\ grub_fs_list \in {NULL, 1}
    /\ fs_uuid \in (IF grub_fs_list = NULL THEN {NULL} ELSE {NULL, 1})
    /\ UUID = Rep(0, UUID_SIZE) /\ uuidRet = "none" /\ uuidUnits = 0 /\ lastUuid = NoUuid
    /\ shellVar \in ShellVariables
    /\ val = Rep(0, VAL_SIZE) /\ envRet = "none" /\ valBytes = 0
    /\ grub_errno = GRUB_ERR_NONE
    /\ probeRet = "none" /\ probeDirCalled = FALSE /\ probeReads = 0
    /\ PoolIdle /\ DiskIdle /\ CallerIdle /\ InstIdle /\ KeyIdle /\ TimeIdle
NextText == GrubGetUUID \/ grub_env_get
SpecText == InitText /\ [][NextText]_vars

InitKey ==
    /\ KeyIdle
    /\ PoolIdle /\ DiskIdle /\ CallerIdle /\ InstIdle /\ ProbeIdle /\ TextIdle /\ TimeIdle
NextKey == KeyStroke \/ grub_getkey_entry \/ grub_getkey_poll
SpecKey == InitKey /\ [][NextKey]_vars

NextTime == GrubTimeToEfiTime
SpecTime == InitTime /\ [][NextTime]_vars
\* The function is straight-line code and two loops run by a single thread:
\* a step that can be taken is taken.
\* Checked on every DayStride-th day of the range and the boundary values.
DayStride == 7
InitTimeSampled ==
    /\ InitTime
    /\ \/ (t \div SECS_PER_DAY) % DayStride = 0
       \/ t \in {INT32_MIN, INT32_MAX, -1}
FairSpecTime == InitTimeSampled /\ [][NextTime]_vars /\ WF_vars(NextTime)

(***************************************************************************)
(* Reference calendar, stated independently of the code                    *)
(***************************************************************************)
GregorianLeap(yy) == yy % 4 = 0 /\ (yy % 100 # 0 \/ yy % 400 = 0)
MonthLength(m, yy) ==
    IF m = 2 THEN (IF GregorianLeap(yy) THEN 29 ELSE 28)
    ELSE IF m \in {4, 6, 9, 11} THEN 30 ELSE 31
\* Days from 1 January 1970 to 1 January of year yy (negative before 1970).
DaysBeforeYear(yy) ==
    IF yy >= 1970
    THEN 365 * (yy - 1970) + Cardinality({k \in 1970..(yy - 1) : GregorianLeap(k)})
    ELSE -(365 * (1970 - yy) + Cardinality({k \in yy..1969 : GregorianLeap(k)}))
RECURSIVE DaysBeforeMonth(_, _)
DaysBeforeMonth(m, yy) ==
    IF m <= 1 THEN 0 ELSE MonthLength(m - 1, yy) + DaysBeforeMonth(m - 1, yy)
CivilDay(c) == DaysBeforeYear(c.Year) + DaysBeforeMonth(c.Month, c.Year) + c.Day - 1
Cal(yy, mo, d, h, mi, s) ==
    [Year |-> yy, Month |-> mo, Day |-> d, Hour |-> h, Minute |-> mi, Second |-> s]
KnownDates ==
    { <<0, Cal(1970, 1, 1, 0, 0, 0)>>,
      <<-1, Cal(1969, 12, 31, 23, 59, 59)>>,
      <<SECS_PER_DAY * 365, Cal(1971, 1, 1, 0, 0, 0)>>,
      <<SECS_PER_DAY * 788, Cal(1972, 2, 28, 0, 0, 0)>>,
      <<SECS_PER_DAY * 789, Cal(1972, 2, 29, 0, 0, 0)>>,
      <<SECS_PER_DAY * 790, Cal(1972, 3, 1, 0, 0, 0)>>,
      <<SECS_PER_DAY * 11015, Cal(2000, 2, 28, 0, 0, 0)>>,
      <<SECS_PER_DAY * 11016, Cal(2000, 2, 29, 0, 0, 0)>>,
      <<SECS_PER_DAY * 11017, Cal(2000, 3, 1, 0, 0, 0)>>,
      <<INT32_MIN, Cal(1901, 12, 13, 20, 45, 52)>>,
      <<INT32_MAX, Cal(2038, 1, 19, 3, 14, 7)>> }

\* The last call was made on a usable Disk for a range inside the backing store.
ReadInStore ==
    /\ readRet # "none"
    /\ disk_data # NULL /\ DiskIo # NULL
    /\ readArgs.sector * GRUB_DISK_SECTOR_SIZE + readArgs.offset + readArgs.size
          <= StoreBytes
\* C1: on a Disk with non-null back-reference and capability, a read inside
\* the backing store issues a host read at sector*GRUB_DISK_SECTOR_SIZE+offset
\* for exactly size bytes, and when that read succeeds returns 0 with the
\* buffer equal to a direct raw-block read of that range.
DiskReadIsRawRead ==
    ReadInStore =>
        LET a == readArgs.sector * GRUB_DISK_SECTOR_SIZE + readArgs.offset
        IN /\ Len(readLog) >= 1
           /\ readLog[1].Offset = a
           /\ readLog[1].BufferSize = readArgs.size
           /\ readLog[1].Status = "EFI_SUCCESS" =>
                 /\ readRet = GRUB_ERR_NONE
                 /\ buf = RawBlockRead(a, readArgs.size)
\* A successful read that starts inside sector 1 at a non-zero offset.
DiskReadWitness ==
    /\ ReadInStore /\ readRet = GRUB_ERR_NONE
    /\ readArgs.sector = 1 /\ readArgs.offset = 1 /\ readArgs.size = MaxSize
    /\ buf = RawBlockRead(GRUB_DISK_SECTOR_SIZE + 1, MaxSize)

\* C2: the read-error code is returned exactly when the back-reference is
\* null, the capability is null, or the host read failed; the null cases
\* issue no host read, a host failure is issued exactly once.
DiskReadErrorCases ==
    readRet # "none" =>
        LET nullCase == disk_data = NULL \/ DiskIo = NULL
            hostFailed == Len(readLog) >= 1 /\ readLog[Len(readLog)].Status # "EFI_SUCCESS"
        IN /\ readRet = GRUB_ERR_READ_ERROR <=> (nullCase \/ hostFailed)
           /\ nullCase => readLog = <<>>
           /\ ~nullCase => Len(readLog) = 1
\* The host read failed with a device error inside the store.
DiskReadErrorWitness ==
    /\ readRet = GRUB_ERR_READ_ERROR /\ disk_data # NULL /\ DiskIo # NULL
    /\ Len(readLog) = 1 /\ readLog[1].Status = "EFI_DEVICE_ERROR"

\* C3: open and close are allocation-neutral for any identity and any pattern
\* of allocation failures: a failed open leaves the live allocations as they
\* were, a successful one adds exactly the Device and its Disk, and closing
\* the Device right after restores the set from before the open.
OpenCloseNeutral ==
    /\ lastOp \in {"open_failed", "open_close"} => heap = heapBefore
    /\ lastOp = "open_failed" => lastDev = NULL
    /\ lastOp = "open" =>
          /\ lastDev \in Pool \ heapBefore
          /\ mem[lastDev].disk \in Pool \ (heapBefore \cup {lastDev})
          /\ mem[mem[lastDev].disk].data = lastName
          /\ heap = heapBefore \cup {lastDev, mem[lastDev].disk}
\* A device opened with a null identity while others were live has been closed.
OpenCloseWitness ==
    lastOp = "open_close" /\ lastName = NULL /\ heapBefore # {} /\ fault = "none"

\* C4 as stated: after any sequence of GrubDeviceInit and GrubDeviceExit calls
\* an instance has at most one live Device, and once it has been exited every
\* Device allocated for it has been freed exactly once.
OneLiveDevicePerInstance ==
    \A f \in Instances :
        /\ Cardinality(liveDev[f]) <= 1
        /\ instCall[f] = "exit" => liveDev[f] = {}
        /\ ~badFree

\* C5: with no driver registered GrubFSProbe returns false without invoking a
\* driver entry point and without a disk read.
ProbeWithoutDriver ==
    (probeRet # "none" /\ grub_fs_list = NULL) =>
        /\ probeRet = "FALSE"
        /\ ~probeDirCalled
        /\ probeReads = 0
\* The probe ran without a driver on an instance that holds a Device.
ProbeWithoutDriverWitness ==
    /\ probeRet = "FALSE" /\ grub_fs_list = NULL /\ fault = "none"
    /\ \E f \in Instances : GrubDevice[f] \in heap /\ mem[GrubDevice[f]].disk \in heap

\* C6 as stated: GrubGetUUID returns null exactly when the driver has no UUID
\* entry point, the entry point reports an error, or it yields a null or an
\* empty identifier; otherwise it returns the static buffer.
UuidNullCases ==
    uuidRet # "none" =>
        (uuidRet = "NULL" <=>
            (fs_uuid = NULL \/ lastUuid.err \/ lastUuid.isNull \/ lastUuid.text = <<>>))

\* C8 as stated: no call stores more than the capacity of its static buffer:
\* at most 128 bytes by grub_env_get, at most 36 code units by GrubGetUUID.
TextFitsBuffers ==
    /\ valBytes <= VAL_SIZE
    /\ uuidUnits <= UUID_SIZE

\* C9 as stated: grub_getkey returns only after the console has delivered a
\* keystroke, and returns that keystroke's character.
KeyReturnedIsKeystroke ==
    kpc = "returned" => (keyRead /\ keyRet = Key)

\* C7: for every INT32 epoch value the result is the proleptic-Gregorian UTC
\* calendar value: fields in range, the day valid for its month and year,
\* converting back gives the input, and the named dates come out as stated.
TimeIsGregorian ==
    tpc = "done" =>
        /\ tp.Month \in 1..12
        /\ tp.Day \in 1..MonthLength(tp.Month, tp.Year)
        /\ tp.Hour \in 0..23 /\ tp.Minute \in 0..59 /\ tp.Second \in 0..59
        /\ CivilDay(tp) = t \div SECS_PER_DAY
        /\ tp.Hour * 3600 + tp.Minute * 60 + tp.Second = t % SECS_PER_DAY
        /\ \A k \in KnownDates : t = k[1] => tp = k[2]
\* A leap day before the epoch has been converted.
TimeIsGregorianWitness ==
    tpc = "done" /\ t < 0 /\ tp.Month = 2 /\ tp.Day = 29 /\ tp.Second = 59

\* C10: both loops terminate; the year loop keeps the absolute day number and
\* leaves 0 <= days < length of the final year; the month scan keeps its table
\* index in 0..11.
AbsDay == days + DaysBeforeYear(y)
TimeLoopsTerminate ==
    /\ [][(tpc = "year" /\ tpc' = "year") => AbsDay' = AbsDay]_vars
    /\ [](tpc = "year" => AbsDay = t \div SECS_PER_DAY)
    /\ [](tpc = "month" =>
            /\ 0 <= days
            /\ days < (IF GregorianLeap(tp.Year) THEN 366 ELSE 365)
            /\ y \in 0..11)
    /\ <>(tpc = "done")
\* The year loop has run twice and the month scan has reached index 0.
TimeLoopsWitness ==
    tpc = "month" /\ y = 0 /\ tp.Year < 1970 /\ days = 0
====
